---- MODULE Spec2Model ----
(***************************************************************************)
(* Model of src/TESTSCRAPER.py: the MountainProjectScraper class.          *)
(*                                                                         *)
(* A parsed page (BeautifulSoup tree) is a record holding the elements the *)
(* extractors look for.  Python's None for an element is the record        *)
(* Absent; an element that exists is truthy whatever its text (bs4's       *)
(* Tag.__bool__ is constantly True), so `a or b` picks a whenever a        *)
(* exists.  Texts are strings; get_text(strip=True) is computed on them.   *)
(***************************************************************************)
EXTENDS Integers, Sequences, FiniteSets, TLC

VARIABLES
    pc,            \* position of the running call
    delay,         \* self.delay
    route_urls,    \* argument of scrape_multiple_routes
    idx,           \* number of URLs the for loop has taken
    response,      \* status code of the response in hand (0: none)
    soup,          \* the parsed page in hand (NoneSoup: get_page returned None)
    routes,        \* the list scrape_multiple_routes builds / save_to_csv reads
    log,           \* I/O issued so far: time.sleep and session.get calls
    fetched,       \* per URL taken, whether get_page returned a page
    route_info,    \* result of extract_route_basic_info
    description,   \* result of extract_description
    ratings,       \* result of extract_user_ratings
    images,        \* result of extract_images
    max_routes,    \* argument of find_routes_from_area
    route_links,   \* result of find_routes_from_area
    rows           \* rows save_to_csv has written

vars == <<pc, delay, route_urls, idx, response, soup, routes, log, fetched,
          route_info, description, ratings, images, max_routes, route_links, rows>>

-----------------------------------------------------------------------------
(* Bounds of the model *)

\* longest list of URLs given to scrape_multiple_routes
MaxUrls == 3
\* most child nodes of a description block
MaxNodes == 2
\* most rating widgets on a page
MaxWidgets == 2
\* most img elements on a page
MaxImgs == 2
\* most anchors on an area page
MaxLinks == 3
\* largest max_routes given to find_routes_from_area
MaxRoutesArg == 2
\* most ratings of a route written to the CSV file
MaxRatings == 4
\* most filled stars of one rating written to the CSV file
MaxStars == 4

-----------------------------------------------------------------------------
(* Python values *)

\* None, where a string is expected
None == "None"

\* all sequences over S of length at most n
SeqsUpTo(S, n) == UNION {[1..k -> S] : k \in 0..n}

\* does the sequence s hold x
InSeq(x, s) == \E k \in 1..Len(s) : s[k] = x

\* str.lstrip / str.rstrip / str.strip on whitespace
RECURSIVE LStrip(_)
LStrip(s) ==
    IF Len(s) > 0 /\ SubSeq(s, 1, 1) = " " THEN LStrip(SubSeq(s, 2, Len(s))) ELSE s

RECURSIVE RStrip(_)
RStrip(s) ==
    IF Len(s) > 0 /\ SubSeq(s, Len(s), Len(s)) = " "
    THEN RStrip(SubSeq(s, 1, Len(s) - 1)) ELSE s

Strip(s) == RStrip(LStrip(s))

\* separator.join(strings)
RECURSIVE Join(_, _)
Join(sep, strs) ==
    IF Len(strs) = 0 THEN ""
    ELSE IF Len(strs) = 1 THEN strs[1]
    ELSE strs[1] \o sep \o Join(sep, Tail(strs))

-----------------------------------------------------------------------------
(* Elements of a parsed page *)

\* soup.find(...) found nothing
Absent == [present |-> FALSE, nodes |-> <<>>]

\* an element with the given child nodes
Elem(nodes) == [present |-> TRUE, nodes |-> nodes]

\* a text node, a <script> and a <style> child
TextNode(t) == [tag |-> "text", text |-> t]
ScriptNode(t) == [tag |-> "script", text |-> t]
StyleNode(t) == [tag |-> "style", text |-> t]

\* Python's `a or b` on find() results: a Tag is always truthy, None is falsy
PyOr(a, b) == IF a.present THEN a ELSE b

\* desc_section(["script", "style"]) decomposed: those children are removed
Decompose(nodes) == SelectSeq(nodes, LAMBDA n : n.tag \notin {"script", "style"})

\* the stripped, non-empty strings of an element's text nodes, in order
\* (script and style strings are not part of get_text's default types)
StrippedStrings(nodes) ==
    LET texts == SelectSeq(nodes, LAMBDA n : n.tag = "text" /\ Strip(n.text) # "")
    IN  [k \in 1..Len(texts) |-> Strip(texts[k].text)]

\* elem.get_text(strip=True, separator=sep)
GetText(elem, sep) == Join(sep, StrippedStrings(elem.nodes))

-----------------------------------------------------------------------------
(* extract_route_basic_info *)

\* the dict extract_route_basic_info returns
extract_route_basic_info(page) ==
    LET name_elem == page.h1
        first == PyOr(PyOr(page.rateYDS, page.rateHueco), page.rateVScale)
        grade_elem == IF ~first.present THEN page.h2 ELSE first
    IN  [name |-> IF name_elem.present THEN GetText(name_elem, "") ELSE "N/A",
         difficulty |-> IF grade_elem.present THEN GetText(grade_elem, "") ELSE "N/A"]

-----------------------------------------------------------------------------
(* extract_description *)

\* the string extract_description returns
extract_description(page) ==
    LET desc_section == PyOr(page.fr_view, page.route_description)
    IN  IF desc_section.present
        THEN GetText(Elem(Decompose(desc_section.nodes)), " ")
        ELSE "No description available"

-----------------------------------------------------------------------------
(* URLs *)

\* self.base_url
base_url == "https://www.mountainproject.com"

\* `sub in s` on strings
Contains(s, sub) ==
    \E k \in 1..(Len(s) - Len(sub) + 1) : SubSeq(s, k, k + Len(sub) - 1) = sub

\* s.startswith(prefix)
StartsWith(s, prefix) ==
    Len(s) >= Len(prefix) /\ SubSeq(s, 1, Len(prefix)) = prefix

\* the network location of a reference "//netloc/path"
NetLoc(ref) ==
    LET rest == SubSeq(ref, 3, Len(ref))
        cut == {k \in 1..Len(rest) : SubSeq(rest, k, k) = "/"}
    IN  IF cut = {} THEN rest
        ELSE SubSeq(rest, 1, (CHOOSE k \in cut : \A j \in cut : k <= j) - 1)

\* urllib.parse.urlsplit raises ValueError("Invalid IPv6 URL") on an
\* unbalanced bracket in the network location
UrlJoinRaises(ref) ==
    /\ StartsWith(ref, "//")
    /\ Contains(NetLoc(ref), "[") # Contains(NetLoc(ref), "]")

\* urllib.parse.urljoin(base_url, ref) for a base without a path, and a
\* reference without dot segments, query or fragment
urljoin(base, ref) ==
    IF ref = "" THEN base
    ELSE IF StartsWith(ref, "https://") \/ StartsWith(ref, "http://") THEN ref
    ELSE IF StartsWith(ref, "//") THEN "https:" \o ref
    ELSE IF StartsWith(ref, "/") THEN base \o ref
    ELSE base \o "/" \o ref

\* Python truthiness of an attribute value: None and "" are falsy
Truthy(v) == v # None /\ v # ""

\* tag.get(a) or tag.get(b)
GetOr(a, b) == IF Truthy(a) THEN a ELSE b

-----------------------------------------------------------------------------
(* extract_user_ratings *)

\* rating_elem.find_all('i', class_='fa-star') + find_all('span', class_='star')
StarIcons(widget) ==
    SelectSeq(widget.icons, LAMBDA s : s.tag = "i" /\ "fa-star" \in s.class)
    \o SelectSeq(widget.icons, LAMBDA s : s.tag = "span" /\ "star" \in s.class)

\* the icons whose class list holds 'filled' or 'active'
IsFilled(s) == "filled" \in s.class \/ "active" \in s.class

\* filled_stars
FilledStars(widget) == Len(SelectSeq(StarIcons(widget), IsFilled))

\* the guard with >= for >: a widget without a filled star is emitted too
EmitsRating_NonNegative(widget) == FilledStars(widget) >= 0

\* the guard of the emission
EmitsRating(widget) == FilledStars(widget) > 0

\* soup.find_all('div', class_='star-rating') + soup.find_all('span', class_='scoreStars')
RatingElements(page) ==
    SelectSeq(page.widgets, LAMBDA w : w.tag = "div" /\ w.class = "star-rating")
    \o SelectSeq(page.widgets, LAMBDA w : w.tag = "span" /\ w.class = "scoreStars")

\* rating_data for a widget that is emitted
RatingData(widget) ==
    LET parent == widget.parent
        user_elem == parent.user_link
        comment_elem == PyOr(parent.comment_div, parent.p)
        withUser == IF parent.present /\ user_elem.present
                    THEN [user |-> GetText(user_elem, "")] ELSE <<>>
        withComment == IF parent.present /\ comment_elem.present
                       THEN [comment |-> GetText(comment_elem, "")] ELSE <<>>
    IN  [stars |-> FilledStars(widget)] @@ withUser @@ withComment

\* the list extract_user_ratings returns
extract_user_ratings(page) ==
    LET emitted == SelectSeq(RatingElements(page), EmitsRating)
    IN  [k \in 1..Len(emitted) |-> RatingData(emitted[k])]

-----------------------------------------------------------------------------
(* extract_images *)

\* img_selectors
img_selectors ==
    <<"img[src*=route]", "img[src*=photo]", ".photo img", ".image-gallery img",
      "#route-photos img">>

\* whether an img element matches a selector
Matches(selector, img) ==
    CASE selector = "img[src*=route]" -> img.src # None /\ Contains(img.src, "route")
      [] selector = "img[src*=photo]" -> img.src # None /\ Contains(img.src, "photo")
      [] selector = ".photo img" -> "photo" \in img.within
      [] selector = ".image-gallery img" -> "image-gallery" \in img.within
      [] selector = "#route-photos img" -> "route-photos" \in img.within

\* soup.select(selector): the matching imgs in document order
Select(page, selector) == SelectSeq(page.imgs, LAMBDA img : Matches(selector, img))

\* every img the loops visit, in visiting order
VisitedImgs(page) ==
    LET RECURSIVE Visit(_)
        Visit(k) == IF k > Len(img_selectors) THEN <<>>
                    ELSE Select(page, img_selectors[k]) \o Visit(k + 1)
    IN  Visit(1)

\* src = img.get('src') or img.get('data-src')
ImgSrc(img) == GetOr(img.src, img.data_src)

\* the body of the inner loop without the `not in images` test
AddImage_NoDedup(acc, img) ==
    LET src == GetOr(img.src, img.data_src)
    IN  IF Truthy(src) THEN Append(acc, urljoin(base_url, src)) ELSE acc

\* the body of the inner loop for one img
AddImage(acc, img) ==
    LET src == ImgSrc(img)
    IN  IF Truthy(src) /\ ~InSeq(urljoin(base_url, src), acc)
        THEN Append(acc, urljoin(base_url, src)) ELSE acc

\* the list extract_images returns, when no urljoin raises
extract_images(page) ==
    LET todo == VisitedImgs(page)
        RECURSIVE Run(_, _)
        Run(acc, k) == IF k > Len(todo) THEN acc ELSE Run(AddImage(acc, todo[k]), k + 1)
    IN  Run(<<>>, 1)

\* extract_images raises ValueError out of urljoin
extract_images_raises(page) ==
    \E k \in 1..Len(VisitedImgs(page)) :
        LET src == ImgSrc(VisitedImgs(page)[k])
        IN  Truthy(src) /\ UrlJoinRaises(src)

-----------------------------------------------------------------------------
(* get_page *)

\* get_page returned None
NoneSoup == [parsed |-> FALSE]

\* `if not soup`: a parsed document is truthy, None is not
IsPage(s) == s.parsed

\* the exceptions `except requests.RequestException` catches
IsRequestException(e) == e \in {"ConnectionError", "Timeout", "HTTPError"}

\* time.sleep(secs) raises ValueError on a negative length
SleepRaises(secs) == secs < 0

\* response.raise_for_status() raises HTTPError on a 4xx or 5xx status
RaiseForStatusRaises(status) == 400 <= status /\ status < 600

\* the try block with the sleep after the request instead of before it
TryGetPage_SleepAfterGet(d, url, net) ==
    LET io == <<[call |-> "GET", url |-> url], [call |-> "sleep", arg |-> d]>>
    IN  IF net.error # "" THEN [io |-> io, exc |-> net.error, soup |-> NoneSoup]
        ELSE IF RaiseForStatusRaises(net.status)
        THEN [io |-> io, exc |-> "HTTPError", soup |-> NoneSoup]
        ELSE [io |-> io, exc |-> "", soup |-> net.markup]

\* what the try block of get_page does for one answer of the network:
\* the I/O it issues, the exception it ends with ("" for none), the document
TryGetPage(d, url, net) ==
    IF SleepRaises(d)
    THEN [io |-> <<>>, exc |-> "ValueError", soup |-> NoneSoup]
    ELSE LET io == <<[call |-> "sleep", arg |-> d], [call |-> "GET", url |-> url]>>
         IN  IF net.error # ""
             THEN [io |-> io, exc |-> net.error, soup |-> NoneSoup]
             ELSE IF RaiseForStatusRaises(net.status)
             THEN [io |-> io, exc |-> "HTTPError", soup |-> NoneSoup]
             ELSE IF net.markup.rejected
             THEN [io |-> io, exc |-> "ParserRejectedMarkup", soup |-> NoneSoup]
             ELSE [io |-> io, exc |-> "", soup |-> net.markup]

\* get_page: a RequestException is caught and None returned; any other
\* exception leaves get_page (raised names it)
get_page(d, url, net) ==
    LET t == TryGetPage(d, url, net)
    IN  IF t.exc # "" /\ IsRequestException(t.exc)
        THEN [io |-> t.io, raised |-> "", soup |-> NoneSoup]
        ELSE [io |-> t.io, raised |-> t.exc, soup |-> t.soup]

-----------------------------------------------------------------------------
(* scrape_route *)

\* the Route scrape_route composes from a parsed page
Compose(page, route_url) ==
    [name |-> extract_route_basic_info(page).name,
     difficulty |-> extract_route_basic_info(page).difficulty,
     description |-> extract_description(page),
     user_ratings |-> extract_user_ratings(page),
     images |-> extract_images(page),
     url |-> route_url]

\* an extractor raises while the Route is composed
ComposeRaises(page) == extract_images_raises(page)

\* scrape_route: route is <<>> for None and <<r>> for a Route r; raised names
\* the exception that leaves scrape_route ("" for none).  get_page is called
\* outside the try block; `except Exception` covers the composition only.
scrape_route(d, route_url, net) ==
    LET g == get_page(d, route_url, net)
    IN  IF g.raised # ""
        THEN [io |-> g.io, raised |-> g.raised, got_page |-> FALSE, route |-> <<>>]
        ELSE IF ~IsPage(g.soup)
        THEN [io |-> g.io, raised |-> "", got_page |-> FALSE, route |-> <<>>]
        ELSE IF ComposeRaises(g.soup)
        THEN [io |-> g.io, raised |-> "", got_page |-> TRUE, route |-> <<>>]
        ELSE [io |-> g.io, raised |-> "", got_page |-> TRUE,
              route |-> <<Compose(g.soup, route_url)>>]

-----------------------------------------------------------------------------
(* find_routes_from_area *)

\* route_links before de-duplication
CollectLinks(page) ==
    LET hrefs == SelectSeq(page.anchors,
                           LAMBDA href : href # None /\ Contains(href, "/route/"))
    IN  [k \in 1..Len(hrefs) |-> urljoin(base_url, hrefs[k])]

\* the elements of a list
ToSet(list) == {list[k] : k \in 1..Len(list)}

\* list(set(xs)): the elements once each, in an order Python does not fix
ListOfSet(S) ==
    {p \in [1..Cardinality(S) -> S] : \A a, b \in 1..Cardinality(S) : a # b => p[a] # p[b]}

\* list[:n] for n >= 0
Slice(list, n) == SubSeq(list, 1, IF n < Len(list) THEN n ELSE Len(list))

\* `if max_routes:` -- None (<<>>) and 0 are falsy
MaxRoutesTruthy(m) == m # <<>> /\ m[1] # 0

\* find_routes_from_area without list(set(...)): the links as collected
FindRoutes_NoDedup(page, m) ==
    {IF MaxRoutesTruthy(m) THEN Slice(CollectLinks(page), m[1]) ELSE CollectLinks(page)}

\* the lists find_routes_from_area may return for a parsed area page
FindRoutes(page, m) ==
    {IF MaxRoutesTruthy(m) THEN Slice(deduped, m[1]) ELSE deduped :
        deduped \in ListOfSet(ToSet(CollectLinks(page)))}

-----------------------------------------------------------------------------
(* save_to_csv *)

\* r.get('stars', 0)
GetStars(r) == IF "stars" \in DOMAIN r THEN r.stars ELSE 0

\* sum(r.get('stars', 0) for r in ratings)
RECURSIVE SumStars(_)
SumStars(rs) == IF Len(rs) = 0 THEN 0 ELSE GetStars(Head(rs)) + SumStars(Tail(rs))

\* the mean cut off after one decimal instead of rounded
Round1_Truncate(num, den) == (10 * num) \div den

\* round(num / den, 1), in tenths: the nearest tenth; on a tie the even one
\* (num / den is then a multiple of 1/4 for den < 20, exact as a float)
Round1(num, den) ==
    LET q == (10 * num) \div den
        r == (10 * num) % den
    IN  IF 2 * r < den THEN q
        ELSE IF 2 * r > den THEN q + 1
        ELSE IF q % 2 = 0 THEN q ELSE q + 1

\* str(n) for a natural number
RECURSIVE NatStr(_)
NatStr(n) ==
    IF n < 10 THEN SubSeq("0123456789", n + 1, n + 1)
    ELSE NatStr(n \div 10) \o SubSeq("0123456789", (n % 10) + 1, (n % 10) + 1)

\* the text csv writes for a float given in tenths
TenthsStr(t) == NatStr(t \div 10) \o "." \o NatStr(t % 10)

\* text[:n] + '...' if len(text) > n else text
Truncate(text, n) == IF Len(text) > n THEN SubSeq(text, 1, n) \o "..." ELSE text

\* the 'avg_rating' cell: avg_rating is 0 for no ratings, the mean otherwise;
\* the cell is the rounded mean if avg_rating > 0, else 'N/A'
AvgRatingCell(rs) ==
    LET num == IF Len(rs) > 0 THEN SumStars(rs) ELSE 0
        den == IF Len(rs) > 0 THEN Len(rs) ELSE 1
    IN  IF num > 0 THEN TenthsStr(Round1(num, den)) ELSE "N/A"

\* the row save_to_csv writes for a route
CsvRow(route) ==
    [name |-> route.name,
     difficulty |-> route.difficulty,
     description |-> Truncate(route.description, 500),
     rating_count |-> Len(route.user_ratings),
     avg_rating |-> AvgRatingCell(route.user_ratings),
     image_count |-> Len(route.images),
     url |-> route.url]

-----------------------------------------------------------------------------
(* The pages and answers the model is run on *)

\* a parsed page without any of the elements the extractors look for
EmptyPage ==
    [parsed |-> TRUE, rejected |-> FALSE,
     h1 |-> Absent, rateYDS |-> Absent, rateHueco |-> Absent, rateVScale |-> Absent,
     h2 |-> Absent, fr_view |-> Absent, route_description |-> Absent,
     widgets |-> <<>>, imgs |-> <<>>, anchors |-> <<>>]

\* an element with one text node
TextElem(t) == Elem(<<TextNode(t)>>)

\* absent, without text, with whitespace only, with text
Variants(t) == {Absent, Elem(<<>>), TextElem("  "), TextElem(t)}

\* pages for extract_route_basic_info: each marker carries its own grade
BasicPages ==
    {[EmptyPage EXCEPT !.h1 = n, !.rateYDS = y, !.rateHueco = h,
                       !.rateVScale = v, !.h2 = g] :
        n \in {Absent, TextElem(" The Nose ")},
        y \in Variants(" 5.9 "), h \in Variants("V4"),
        v \in Variants("V2"), g \in Variants("5.10a")}

\* child nodes of a description block
DescNodes ==
    {TextNode("Classic line."), TextNode(" Bring cams. "), TextNode("   "),
     ScriptNode("var x = 1;"), StyleNode("p { color: red }")}

\* description blocks
DescBlocks == {Absent} \cup {Elem(nodes) : nodes \in SeqsUpTo(DescNodes, MaxNodes)}

\* pages for extract_description
DescPages ==
    {[EmptyPage EXCEPT !.fr_view = f, !.route_description = r] :
        f \in DescBlocks, r \in DescBlocks}

\* star icons
Icon(tag, class) == [tag |-> tag, class |-> class]
FilledIcon == Icon("i", {"fa", "fa-star", "filled"})
PlainIcon == Icon("i", {"fa", "fa-star"})
ActiveIcon == Icon("span", {"star", "active"})
BothIcon == Icon("span", {"star", "filled", "active"})
OtherIcon == Icon("i", {"fa-comment", "filled"})

\* the icon rows of the widgets
IconRows ==
    {<<>>, <<PlainIcon, PlainIcon>>, <<OtherIcon>>, <<FilledIcon, PlainIcon>>,
     <<ActiveIcon, BothIcon, FilledIcon>>, <<FilledIcon>>}

\* the element enclosing a widget
Parent(user_link, comment_div, p) ==
    [present |-> TRUE, user_link |-> user_link, comment_div |-> comment_div, p |-> p]

Parents ==
    {Parent(Absent, Absent, Absent),
     Parent(TextElem(" alice "), TextElem("Fun route"), TextElem("para")),
     Parent(Absent, Absent, TextElem("Sandbagged"))}

\* rating widgets, and elements that are none (a div of class scoreStars)
Widgets ==
    {[tag |-> k[1], class |-> k[2], icons |-> row, parent |-> par] :
        k \in {<<"div", "star-rating">>, <<"span", "scoreStars">>, <<"div", "scoreStars">>},
        row \in IconRows, par \in Parents}

\* pages for extract_user_ratings
RatingPages ==
    {[EmptyPage EXCEPT !.widgets = ws] : ws \in SeqsUpTo(Widgets, MaxWidgets)}

\* img elements
Imgs ==
    {[src |-> s, data_src |-> d, within |-> w] :
        s \in {None, "", "/route/a.jpg", "route/a.jpg", "/photo/b.jpg",
               "https://cdn.example.com/photo/b.jpg", "/img/c.png", "//[photo"},
        d \in {None, "/photo/b.jpg"},
        w \in {{}, {"photo"}, {"image-gallery", "route-photos"}}}

\* pages for extract_images
ImagePages == {[EmptyPage EXCEPT !.imgs = is] : is \in SeqsUpTo(Imgs, MaxImgs)}

\* href attributes of the anchors of an area page (None: an anchor without href)
Hrefs ==
    {None, "/route/1/a", "route/1/a", "https://www.mountainproject.com/route/1/a",
     "/route/2/b", "/area/2/b"}

\* area-listing pages
AreaPages == {[EmptyPage EXCEPT !.anchors = as] : as \in SeqsUpTo(Hrefs, MaxLinks)}

\* an answer of the network to one GET: a transport error, or a status and a body
Answer(error, status, markup) == [error |-> error, status |-> status, markup |-> markup]

\* a body html.parser rejects (bs4 raises ParserRejectedMarkup)
RejectedMarkup == [EmptyPage EXCEPT !.rejected = TRUE]

\* the failing answers
FailingAnswers ==
    {Answer("ConnectionError", 0, EmptyPage), Answer("Timeout", 0, EmptyPage),
     Answer("", 404, EmptyPage), Answer("", 500, EmptyPage)}

\* a route page
NosePage ==
    [EmptyPage EXCEPT
        !.h1 = TextElem("The Nose"), !.rateYDS = TextElem("5.9"),
        !.fr_view = TextElem("Classic line."),
        !.widgets = <<[tag |-> "div", class |-> "star-rating",
                       icons |-> <<FilledIcon, FilledIcon, PlainIcon>>,
                       parent |-> Parent(TextElem("alice"), TextElem("Fun"), Absent)]>>,
        !.imgs = <<[src |-> "/photo/b.jpg", data_src |-> None, within |-> {"photo"}]>>]

\* a route page with an img whose src urljoin rejects
BrokenImgPage ==
    [NosePage EXCEPT
        !.imgs = <<[src |-> "//[photo", data_src |-> None, within |-> {}]>>]

\* the answers to the GET of a route page
RouteAnswers ==
    FailingAnswers \cup
    {Answer("", 200, NosePage), Answer("", 200, BrokenImgPage),
     Answer("", 200, RejectedMarkup)}

\* the answers to the GET of an area page
AreaAnswers ==
    FailingAnswers \cup {Answer("", 200, RejectedMarkup)}
    \cup {Answer("", 200, p) : p \in AreaPages}

\* the URLs given to scrape_multiple_routes
Urls == {"https://www.mountainproject.com/route/1/a",
         "https://www.mountainproject.com/route/2/b"}

\* the delays a scraper is constructed with
Delays == {-1, 0, 1}

-----------------------------------------------------------------------------
(* Initial values of the variables a call does not use *)

NoAnswer == Answer("", 0, EmptyPage)
NoInfo == [name |-> "", difficulty |-> ""]

Idle ==
    /\ delay = 1
    /\ route_urls = <<>>
    /\ idx = 0
    /\ response = NoAnswer
    /\ routes = <<>>
    /\ log = <<>>
    /\ fetched = <<>>
    /\ route_info = NoInfo
    /\ description = ""
    /\ ratings = <<>>
    /\ images = <<>>
    /\ max_routes = <<>>
    /\ route_links = <<>>
    /\ rows = <<>>

-----------------------------------------------------------------------------
(* scrape_multiple_routes *)

InitBatch ==
    /\ pc = "loop"
    /\ delay \in Delays
    /\ route_urls \in SeqsUpTo(Urls, MaxUrls)
    /\ idx = 0
    /\ response = NoAnswer
    /\ soup = NoneSoup
    /\ routes = <<>>
    /\ log = <<>>
    /\ fetched = <<>>
    /\ route_info = NoInfo
    /\ description = ""
    /\ ratings = <<>>
    /\ images = <<>>
    /\ max_routes = <<>>
    /\ route_links = <<>>
    /\ rows = <<>>

\* one turn of `for url in route_urls`: scrape_route(url), and the append.
\* An exception that leaves scrape_route leaves scrape_multiple_routes too.
ScrapeNext ==
    /\ pc = "loop"
    /\ idx < Len(route_urls)
    /\ \E net \in RouteAnswers :
          LET r == scrape_route(delay, route_urls[idx + 1], net)
          IN  /\ response' = net
              /\ log' = log \o r.io
              /\ idx' = idx + 1
              /\ IF r.raised # ""
                 THEN /\ pc' = "raised"
                      /\ UNCHANGED <<routes, fetched>>
                 ELSE /\ pc' = "loop"
                      /\ fetched' = Append(fetched, r.got_page)
                      /\ routes' = IF r.route # <<>> THEN Append(routes, r.route[1])
                                   ELSE routes
    /\ UNCHANGED <<delay, route_urls, soup, route_info, description, ratings, images,
                   max_routes, route_links, rows>>

\* `return routes`
ReturnRoutes ==
    /\ pc = "loop"
    /\ idx = Len(route_urls)
    /\ pc' = "done"
    /\ UNCHANGED <<delay, route_urls, idx, response, soup, routes, log, fetched,
                   route_info, description, ratings, images, max_routes, route_links,
                   rows>>

NextBatch == ScrapeNext \/ ReturnRoutes

SpecBatch == InitBatch /\ [][NextBatch]_vars

-----------------------------------------------------------------------------
(* The extractors, each applied to a page *)

InitBasic == pc = "start" /\ soup \in BasicPages /\ Idle
InitDesc == pc = "start" /\ soup \in DescPages /\ Idle
InitRatings == pc = "start" /\ soup \in RatingPages /\ Idle
InitImages == pc = "start" /\ soup \in ImagePages /\ Idle

ExtractRouteBasicInfo ==
    /\ pc = "start"
    /\ route_info' = extract_route_basic_info(soup)
    /\ pc' = "done"
    /\ UNCHANGED <<delay, route_urls, idx, response, soup, routes, log, fetched,
                   description, ratings, images, max_routes, route_links, rows>>

ExtractDescription ==
    /\ pc = "start"
    /\ description' = extract_description(soup)
    /\ pc' = "done"
    /\ UNCHANGED <<delay, route_urls, idx, response, soup, routes, log, fetched,
                   route_info, ratings, images, max_routes, route_links, rows>>

ExtractUserRatings ==
    /\ pc = "start"
    /\ ratings' = extract_user_ratings(soup)
    /\ pc' = "done"
    /\ UNCHANGED <<delay, route_urls, idx, response, soup, routes, log, fetched,
                   route_info, description, images, max_routes, route_links, rows>>

\* extract_images returns its list, or ValueError leaves it
ExtractImages ==
    /\ pc = "start"
    /\ IF extract_images_raises(soup)
       THEN pc' = "raised" /\ UNCHANGED images
       ELSE pc' = "done" /\ images' = extract_images(soup)
    /\ UNCHANGED <<delay, route_urls, idx, response, soup, routes, log, fetched,
                   route_info, description, ratings, max_routes, route_links, rows>>

SpecBasic == InitBasic /\ [][ExtractRouteBasicInfo]_vars
SpecDesc == InitDesc /\ [][ExtractDescription]_vars
SpecRatings == InitRatings /\ [][ExtractUserRatings]_vars
SpecImages == InitImages /\ [][ExtractImages]_vars

-----------------------------------------------------------------------------
(* find_routes_from_area *)

\* the area URL
area_url == "https://www.mountainproject.com/area/105833381/yosemite-valley"

InitArea ==
    /\ pc = "start"
    /\ delay = 1
    /\ route_urls = <<>>
    /\ idx = 0
    /\ response \in AreaAnswers
    /\ soup = NoneSoup
    /\ routes = <<>>
    /\ log = <<>>
    /\ fetched = <<>>
    /\ route_info = NoInfo
    /\ description = ""
    /\ ratings = <<>>
    /\ images = <<>>
    /\ max_routes \in {<<>>} \cup {<<n>> : n \in 0..MaxRoutesArg}
    /\ route_links = <<>>
    /\ rows = <<>>

FindRoutesFromArea ==
    /\ pc = "start"
    /\ LET g == get_page(delay, area_url, response)
       IN  /\ log' = log \o g.io
           /\ soup' = g.soup
           /\ IF g.raised # "" THEN pc' = "raised" /\ UNCHANGED route_links
              ELSE IF ~IsPage(g.soup) THEN pc' = "done" /\ route_links' = <<>>
              ELSE pc' = "done" /\ route_links' \in FindRoutes(g.soup, max_routes)
    /\ UNCHANGED <<delay, route_urls, idx, response, routes, fetched, route_info,
                   description, ratings, images, max_routes, rows>>

SpecArea == InitArea /\ [][FindRoutesFromArea]_vars

-----------------------------------------------------------------------------
(* save_to_csv *)

\* a rating as extract_user_ratings emits it: stars is at least 1
CsvRatings == {[stars |-> n] : n \in 1..MaxStars}

\* a route with the given ratings
CsvRoute(rs) ==
    [name |-> "The Nose", difficulty |-> "5.9", description |-> "Classic line.",
     user_ratings |-> rs, images |-> <<>>,
     url |-> "https://www.mountainproject.com/route/1/a"]

\* the route with ratings of 3 and 5 stars
SampleRoute == CsvRoute(<<[stars |-> 3], [stars |-> 5, user |-> "alice"]>>)

\* the lists given to save_to_csv
CsvRouteLists ==
    {<<>>}
    \cup {<<CsvRoute(rs)>> : rs \in SeqsUpTo(CsvRatings, MaxRatings)}
    \cup {<<SampleRoute, CsvRoute(rs)>> : rs \in SeqsUpTo(CsvRatings, MaxRatings)}

InitCsv ==
    /\ pc = "start"
    /\ delay = 1
    /\ route_urls = <<>>
    /\ idx = 0
    /\ response = NoAnswer
    /\ soup = NoneSoup
    /\ routes \in CsvRouteLists
    /\ log = <<>>
    /\ fetched = <<>>
    /\ route_info = NoInfo
    /\ description = ""
    /\ ratings = <<>>
    /\ images = <<>>
    /\ max_routes = <<>>
    /\ route_links = <<>>
    /\ rows = <<>>

\* save_to_csv: nothing is written for an empty list, else one row per route
SaveToCsv ==
    /\ pc = "start"
    /\ rows' = IF routes = <<>> THEN <<>>
               ELSE [k \in 1..Len(routes) |-> CsvRow(routes[k])]
    /\ pc' = "done"
    /\ UNCHANGED <<delay, route_urls, idx, response, soup, routes, log, fetched,
                   route_info, description, ratings, images, max_routes, route_links>>

SpecCsv == InitCsv /\ [][SaveToCsv]_vars

-----------------------------------------------------------------------------
(* Properties of scrape_multiple_routes and scrape_route *)

\* the URLs of a list of Routes
UrlsOf(rs) == [k \in 1..Len(rs) |-> rs[k].url]

\* the first n URLs given whose fetch returned a page, in the order given
RECURSIVE FetchedUrls(_)
FetchedUrls(n) ==
    IF n = 0 THEN <<>>
    ELSE IF fetched[n] THEN Append(FetchedUrls(n - 1), route_urls[n])
    ELSE FetchedUrls(n - 1)

\* the URLs of the GET requests issued, in order
GetUrls ==
    LET gets == SelectSeq(log, LAMBDA e : e.call = "GET")
    IN  [k \in 1..Len(gets) |-> gets[k].url]

\* C1: whatever the outcome of each fetch, scrape_multiple_routes is never
\* aborted, and it returns one Route for each URL whose fetch succeeded and none
\* for the others, in the order of the URLs given.
C1_OneRoutePerFetchedUrl ==
    /\ pc # "raised"
    /\ pc = "done" => UrlsOf(routes) = FetchedUrls(Len(route_urls))

\* C2: no exception leaves scrape_route, whether the fetch fails, the fetch
\* step raises or an extractor raises: it returns a Route or None.
C2_ScrapeRouteNeverRaises == pc \in {"loop", "done"}

-----------------------------------------------------------------------------
(* Properties of extract_user_ratings *)

\* the positions of the candidate widgets of a given kind
CandidatesAt(tag, class) ==
    {k \in DOMAIN soup.widgets : soup.widgets[k].tag = tag /\ soup.widgets[k].class = class}

\* the number of star icons of a widget marked filled or active
FilledCount(w) ==
    Cardinality({k \in DOMAIN w.icons :
        /\ \/ w.icons[k].tag = "i" /\ "fa-star" \in w.icons[k].class
           \/ w.icons[k].tag = "span" /\ "star" \in w.icons[k].class
        /\ {"filled", "active"} \cap w.icons[k].class # {}})

\* the positions, among those given, of the widgets with a filled star
Starred(S) == {k \in S : FilledCount(soup.widgets[k]) > 0}

\* the k-th smallest element of a set of numbers
Nth(S, k) == CHOOSE x \in S : Cardinality({y \in S : y <= x}) = k

\* the widget the k-th Rating comes from: the div.star-rating widgets with a
\* filled star in document order, then the span.scoreStars ones
SourceOf(k) ==
    LET divs == Starred(CandidatesAt("div", "star-rating"))
        spans == Starred(CandidatesAt("span", "scoreStars"))
    IN  IF k <= Cardinality(divs) THEN soup.widgets[Nth(divs, k)]
        ELSE soup.widgets[Nth(spans, k - Cardinality(divs))]

\* C3: every Rating extract_user_ratings returns has an integer 'stars' > 0; a
\* candidate widget without a filled star gives no Rating, whatever its parent
\* holds; there is one Rating per candidate widget with a filled star, in scan
\* order, and its 'stars' is that widget's number of filled stars.
C3_RatingsHavePositiveStars ==
    pc = "done" =>
        /\ \A k \in 1..Len(ratings) :
              "stars" \in DOMAIN ratings[k] /\ ratings[k].stars \in Nat \ {0}
        /\ Len(ratings) =
              Cardinality(Starred(CandidatesAt("div", "star-rating")))
              + Cardinality(Starred(CandidatesAt("span", "scoreStars")))
        /\ \A k \in 1..Len(ratings) : ratings[k].stars = FilledCount(SourceOf(k))

\* a page with a starless div.star-rating widget beside a user link and a
\* comment, which is dropped, while every other widget of the page is emitted
C3_Witness ==
    /\ pc = "done"
    /\ \E k \in DOMAIN soup.widgets :
          /\ soup.widgets[k].class = "star-rating"
          /\ FilledCount(soup.widgets[k]) = 0
          /\ soup.widgets[k].parent.user_link.present
          /\ Len(ratings) = Len(soup.widgets) - 1
    /\ Len(ratings) >= 1

-----------------------------------------------------------------------------
(* Properties of extract_images *)

\* the (selector, img) pairs of the page that match
MatchPairs ==
    {m \in (DOMAIN img_selectors) \X (DOMAIN soup.imgs) :
        Matches(img_selectors[m[1]], soup.imgs[m[2]])}

\* the address read from an img: src, or data-src when src is absent
SrcOrAbsent(img) == IF img.src # None THEN img.src ELSE img.data_src

\* the address read from an img: src, or data-src when src is absent or empty
SrcOrEmpty(img) == IF img.src # None /\ img.src # "" THEN img.src ELSE img.data_src

\* no entry of the list occurs twice
NoDuplicates(list) == \A a, b \in 1..Len(list) : a # b => list[a] # list[b]

\* the place of a match in the order the selectors and the document give
Place(m) == (m[1] - 1) * (Len(soup.imgs) + 1) + m[2]

\* the matches that resolve to the URL u
MatchesOf(u) ==
    {m \in MatchPairs :
        /\ SrcOrEmpty(soup.imgs[m[2]]) \notin {None, ""}
        /\ urljoin(base_url, SrcOrEmpty(soup.imgs[m[2]])) = u}

\* the place of the first match that resolves to u
FirstPlace(u) ==
    CHOOSE n \in {Place(m) : m \in MatchesOf(u)} :
        \A m \in MatchesOf(u) : n <= Place(m)

-----------------------------------------------------------------------------
(* Properties of find_routes_from_area *)

\* the anchors of the area page that was served
Anchors == response.markup.anchors

\* the fetch of the area page failed: get_page returned None
AreaFetchFailed == response.error # "" \/ response.status >= 400

\* the absolute URLs of the anchors whose href contains '/route/'
RouteUrlSet ==
    {urljoin(base_url, Anchors[k]) :
        k \in {j \in DOMAIN Anchors : Anchors[j] # None /\ Contains(Anchors[j], "/route/")}}

\* the absolute URLs of the anchors whose href lacks '/route/'
OtherUrlSet ==
    {urljoin(base_url, Anchors[k]) :
        k \in {j \in DOMAIN Anchors : Anchors[j] # None /\ ~Contains(Anchors[j], "/route/")}}

\* the call returned all the de-duplicated route URLs, once each
ReturnsAllRouteUrls ==
    /\ ToSet(route_links) = RouteUrlSet
    /\ Len(route_links) = Cardinality(RouteUrlSet)

C9_AtMostMaxRoutes ==
    pc = "done" /\ ~AreaFetchFailed =>
        /\ max_routes # <<>> =>
              /\ Len(route_links) <= max_routes[1]
              /\ ToSet(route_links) \subseteq RouteUrlSet
        /\ max_routes = <<>> => ReturnsAllRouteUrls

-----------------------------------------------------------------------------
(* Properties of extract_description *)

\* the text is made of whitespace only
AllSpaces(t) == \A k \in 1..Len(t) : SubSeq(t, k, k) = " "

\* the content block of the page: div.fr-view, else #route-description
ContentBlock == IF soup.fr_view.present THEN soup.fr_view ELSE soup.route_description

\* the block has no visible text: its children are script, style, or blank text
NoVisibleText(block) ==
    \A k \in DOMAIN block.nodes :
        block.nodes[k].tag = "text" => AllSpaces(block.nodes[k].text)

\* C6: when the content block is absent, or is present without visible text,
\* extract_description returns "No description available".
C6_EmptyBlockGivesFallback ==
    pc = "done" =>
        (~ContentBlock.present \/ NoVisibleText(ContentBlock)
            => description = "No description available")

-----------------------------------------------------------------------------
(* Properties of extract_route_basic_info *)

\* the grade markers in the order they are tried
GradeMarkers == <<soup.rateYDS, soup.rateHueco, soup.rateVScale, soup.h2>>

\* the text of a marker, stripped
MarkerText(m) == IF m.nodes = <<>> THEN "" ELSE Strip(m.nodes[1].text)

\* the marker has text
HasText(m) == m.present /\ MarkerText(m) # ""

\* C8: the first grade marker, in the order rateYDS, rateHueco, rateVScale, h2,
\* that has non-empty text gives the difficulty, also when an earlier marker
\* exists with empty text; the difficulty is "N/A" when no marker exists, and
\* never the empty string.
C8_FirstNonEmptyGradeWins ==
    pc = "done" =>
        /\ \A k \in 1..Len(GradeMarkers) :
              (HasText(GradeMarkers[k]) /\ \A j \in 1..(k - 1) : ~HasText(GradeMarkers[j]))
                  => route_info.difficulty = MarkerText(GradeMarkers[k])
        /\ (\A k \in 1..Len(GradeMarkers) : ~GradeMarkers[k].present)
              => route_info.difficulty = "N/A"
        /\ route_info.difficulty # ""

-----------------------------------------------------------------------------
(* Properties of save_to_csv *)

\* the sum of the stars of a list of ratings
TotalStars(rs) ==
    LET top == IF rs = <<>> THEN 0
               ELSE CHOOSE m \in {rs[k].stars : k \in DOMAIN rs} :
                        \A k \in DOMAIN rs : rs[k].stars <= m
    IN  Cardinality({c \in (DOMAIN rs) \X (1..top) : c[2] <= rs[c[1]].stars})

\* t tenths is a nearest tenth of num / den
NearestTenth(t, num, den) ==
    LET d == 10 * num - t * den
    IN  2 * (IF d < 0 THEN -d ELSE d) <= den

\* C7: in the row save_to_csv writes for a route, avg_rating is "N/A" exactly
\* when the route has no ratings; else it is the mean of the 'stars' of all its
\* ratings rounded to one decimal; rating_count is the number of ratings.
C7_AvgRatingIsRoundedMean ==
    pc = "done" =>
        /\ Len(rows) = Len(routes)
        /\ \A k \in 1..Len(rows) :
              LET rs == routes[k].user_ratings
              IN  /\ rows[k].rating_count = Len(rs)
                  /\ rows[k].avg_rating = "N/A" <=> Len(rs) = 0
                  /\ Len(rs) > 0 =>
                        \E t \in 0..(10 * TotalStars(rs)) :
                            /\ rows[k].avg_rating = TenthsStr(t)
                            /\ NearestTenth(t, TotalStars(rs), Len(rs))

\* ratings of 3 and 5 stars give "4.0", no ratings give "N/A", and a mean
\* between two tenths is rounded
C7_Witness ==
    /\ pc = "done"
    /\ Len(rows) = 2
    /\ rows[1].avg_rating = "4.0" /\ rows[1].rating_count = 2
    /\ \/ rows[2].avg_rating = "N/A" /\ rows[2].rating_count = 0
       \/ rows[2].avg_rating = "1.7" /\ rows[2].rating_count = 3

====
